---- MODULE Spec2Model ----
(***************************************************************************)
(* Parametric sweep drivers of the basic range analyses:                   *)
(*   ParametricAnalysis (Basic_Analyses/parametric_study.py), driven over  *)
(*     the zero-order evaluator cruiseRange                                *)
(*     (Basic_Analyses/zero_order_range_analysis.py) on an Aircraft        *)
(*     (Basic_Analyses/simple_aircraft.py): specification Spec;            *)
(*   RangeAnalysis (Basic_Analyses/electric_range_eqn.py), which sweeps    *)
(*     the dictionary it was constructed with: specification SpecRA.       *)
(* The evaluators and searches the drivers are used with:                  *)
(*   flightRange (Basic_Analyses/first_order_range_analysis.py) and        *)
(*     cruiseRange called on one Aircraft: specification SpecFR;           *)
(*   airDensity called on its own: specification SpecAD;                   *)
(*   the constrained searches cruise_opt                                   *)
(*     (Vehicle_Scripts/mtow_range_tradeoff.py) and opt_cruise             *)
(*     (Optimization/opt_cruise.py): specification SpecOpt.                *)
(* The same sweep driver with any evaluator: specification SpecPE.         *)
(* The procedure steps and scripts around them:                            *)
(*   the weight-convergence loops of weights_battery and                   *)
(*     calculate_takeoff_weight, under weak fairness: specification SpecW; *)
(*   the evaluators on an Aircraft built from its defaults:                *)
(*     specification SpecDA;                                               *)
(*   RangeAnalysis.parametricStudy2D (Basic_Analyses/basic_range_sim.py):  *)
(*     specification SpecBR;                                               *)
(*   main and available_cruise_energy of Optimization/opt_cruise.py:       *)
(*     specification SpecCE;                                               *)
(*   the optimization setups and their post_process: specification SpecNX. *)
(*                                                                         *)
(* Numbers are modelled as integers: masses in units of 1000 kg, ranges    *)
(* truncated to integers.  A display unit of 1 is the integer 1 used by    *)
(* the code's defaults; a display unit of 2 stands for a floating-point    *)
(* conversion factor such as 1 / kmh_to_ms.                                *)
(***************************************************************************)
EXTENDS Integers, Sequences, FiniteSets, TLC

\* ------------------------------------------------------------------ bounds
MaxLen == 2          \* longest value sequence swept
MaxStart == 1        \* largest first value of a swept sequence
MaxCalls == 2        \* parametricStudy calls made on one driver object

\* ------------------------------------------------------- program constants
DefaultDryMass == 3
DefaultBatteryMass == 1
DefaultLDRatio == 11
RangeScale == 100
NaN == -1

\* ------------------------------------------------------------ input domains
\* Attribute names a caller may sweep: two data attributes of Aircraft, one
\* read-only property of Aircraft, and one name Aircraft does not define.
Fields == {"dry_mass", "battery_mass", "LD_ratio"}
Properties == {"total_mass"}
Names == {"dry_mass", "battery_mass", "total_mass", "bogus"}

\* The value sequences callers sweep are grids: np.arange(s, s + n).
arange(s, n) == [k \in 1..n |-> s + k - 1]
ValueSeqs == {arange(s, n) : s \in 0..MaxStart, n \in 0..MaxLen}
Kinds == {"ndarray", "list"}
Units == {1, 2}

ParamLists == UNION {[1..n -> Names] : n \in 0..3}
ValueLists == UNION {[1..n -> ValueSeqs] : n \in 0..2}
NoUnits == [given |-> FALSE, units |-> <<>>]
DisplayUnits ==
    {NoUnits} \cup {[given |-> TRUE, units |-> u] : u \in UNION {[1..n -> Units] : n \in 0..3}}

\* --------------------------------------------------------------- Aircraft
\* Aircraft(cfg) of zero_order_range_analysis: the attributes the evaluator reads.
Aircraft == [dry_mass |-> DefaultDryMass, battery_mass |-> DefaultBatteryMass,
             LD_ratio |-> DefaultLDRatio]

\* Aircraft.total_mass property.
total_mass(a) == a.dry_mass + a.battery_mass

\* setattr(obj, name, val) on an Aircraft instance: assigning a property that
\* has no setter raises AttributeError; any other name is stored on the
\* instance, whether or not the class defines it.
setattrRaises(name) == name \in Properties

setattr(obj, name, val) ==
    [n \in (DOMAIN obj) \cup {name} |-> IF n = name THEN val ELSE obj[n]]

\* Configuration objects live in a heap indexed by reference.  BaseRef is the
\* object the driver was constructed with, CopyRef the object a study creates.
BaseRef == 1
CopyRef == 2
Refs == {BaseRef, CopyRef}

\* A study that sweeps the object it was given instead of a copy.
deepcopy_alias(ref) == ref

\* copy.deepcopy(self.cfg): the reference of an independent object.
deepcopy(ref) == CopyRef

\* ---------------------------------------------------------------- evaluator
\* cruiseRange / electricRangeEqn: range = k * LD * battery_mass / total_mass.
\* With total_mass = 0 the division raises ZeroDivisionError on Python
\* numbers and yields nan (with a warning) on numpy scalars.
cruiseRangeRaises(a, kind) == total_mass(a) = 0 /\ kind = "list"

cruiseRange(a) ==
    IF total_mass(a) = 0 THEN NaN
    ELSE (RangeScale * a.LD_ratio * a.battery_mass) \div total_mass(a)

\* self.evaluator_func is whatever callable the driver was constructed with:
\* the repository's cruiseRange, or one that also writes to the configuration
\* it is handed (here: it wears the airframe, lowering LD_ratio by one).
EvaluatorFuncs == {"cruiseRange", "wearingRange"}

evaluatorRaises(func, a, kind) == cruiseRangeRaises(a, kind)

\* The value the evaluator returns for the configuration it is handed.
evaluate(func, a) == cruiseRange(a)

\* The configuration it was handed, after the call.
evaluated(func, a) ==
    IF func = "wearingRange" THEN [a EXCEPT !.LD_ratio = @ - 1] ELSE a

\* A call log with every evaluator call entered twice.
invoke_twice(log, a) == Append(Append(log, a), a)

\* self.evaluator_func(cfg, ...) is called once: the log of the
\* configurations the evaluator was called with grows by one.
invoke(log, a) == Append(log, a)

\* ------------------------------------- first-order evaluator: flightRange
\* first_order_range_analysis.py in fixed-point integers.  Units: masses kg,
\* speeds m/s, altitudes m, times s, forces N, energies kJ, powers kW,
\* densities g/m^3, temperatures 0.01 K, pressures Pa; fractions and
\* efficiencies in percent, lift coefficients in 1/1000, drag coefficients
\* in 1/10000, lengths cm, areas dm^2.  Every division truncates.
gravity == 981              \* 0.01 m/s^2
R == 287
density_msl == 1225         \* g/m^3
temp_msl == 28816           \* 0.01 K
temp_11km == 21670          \* 0.01 K
AtmosphereLimit == 11000    \* m
pi == 3142                  \* 1/1000

MaxAltKm == 12              \* highest altitude drawn, in km
QuadPanels == 4             \* panels of the quadrature of climbPower

\* cessna_cfg of electricCessna208Analysis, with LD_ratio as Aircraft defines it.
cessna_cfg ==
    [dry_mass |-> 2145, battery_mass |-> 1000, energy_density |-> 792,
     packing_factor |-> 80, inaccessible_fraction |-> 8, reserve_fraction |-> 20,
     wingspan |-> 1587, wing_area |-> 2596, wing_efficiency |-> 80,
     drag_coeff_parasitic |-> 340, cruise_speed |-> 96, cruise_altitude |-> 3000,
     climb_rate |-> 5, engine_max_power |-> 503, prop_efficiency |-> 85,
     prop_diameter |-> 269, LD_ratio |-> DefaultLDRatio]

\* The configurations evaluated: cessna_cfg with the swept attributes drawn
\* from grids.  Speeds, rates and altitudes are positive.
Altitudes == {1000 * k : k \in 0..MaxAltKm}
DensityAltitudes == {500 * k : k \in 0..(2 * MaxAltKm)}
BatteryMasses == {100, 1000, 2000}
CruiseSpeeds == {96, 140}
ClimbRates == {5, 10}
FR_Configs ==
    {[cessna_cfg EXCEPT !.battery_mass = b, !.cruise_altitude = h,
                        !.cruise_speed = v, !.climb_rate = c] :
        b \in BatteryMasses, h \in Altitudes \ {0}, v \in CruiseSpeeds, c \in ClimbRates}

\* Integer square and cube roots (np.sqrt, ** (1 / 3)).
isqrt(n) == CHOOSE r \in 0..2000 : r * r <= n /\ (r + 1) * (r + 1) > n
icbrt(n) == CHOOSE r \in 0..300 : r * r * r <= n /\ (r + 1) * (r + 1) * (r + 1) > n

\* x ** (q / 4) for x in 1/1000: whole powers by repeated multiplication,
\* the remaining quarters by repeated multiplication with the fourth root.
RECURSIVE ipow(_, _)
ipow(x, n) == IF n = 0 THEN 1000 ELSE (ipow(x, n - 1) * x) \div 1000
powQuarters(x, q) ==
    (ipow(x, q \div 4) * ipow(isqrt(isqrt(x * 1000) * 1000), q % 4)) \div 1000

\* Aircraft.total_energy property: battery_mass * energy_density * packing_factor.
total_energy_nopacking(a) == a.battery_mass * a.energy_density

total_energy(a) == (a.battery_mass * a.energy_density * a.packing_factor) \div 100

\* The instance after a property getter ran.  A getter that caches its result
\* on the instance:
getter_cached(a) == setattr(a, "_total_energy", total_energy(a))

\* total_mass and total_energy bind a local and return it; no attribute of the
\* instance is assigned.
getter(a) == a

\* airDensity(altitude): the altitude test only prints a warning.
airDensityWarns(altitude) == altitude > AtmosphereLimit

\* A density that does not depend on altitude.
airDensity_constant(altitude) == density_msl

\* temp_gradient = (216.7 - temp_msl) / 11000; temperature = altitude *
\* temp_gradient + temp_msl; density = density_msl * (temperature / temp_msl)
\* ** -(gravity / (temp_gradient * R) + 1).  The exponent is kept in quarters.
airDensity(altitude) ==
    LET lapse == temp_msl - temp_11km
        temperature == temp_msl - (altitude * lapse) \div 11000
        exponent == (gravity * 4) \div ((lapse * R) \div 11000) - 4
    IN  (density_msl * powQuarters((temperature * 1000) \div temp_msl, exponent)) \div 1000

dynamicPressure(density, velocity) == (density * velocity * velocity) \div 2000

aspect_ratio(a) == (a.wingspan * a.wingspan) \div a.wing_area
total_weight(a) == (total_mass(a) * gravity) \div 100

\* inducedDrag(dynamic_pressure, cfg)
inducedDrag(dynamic_pressure, a) ==
    LET lift_coeff == (total_weight(a) * 1000) \div ((dynamic_pressure * a.wing_area) \div 100)
    IN  (lift_coeff * lift_coeff) \div ((pi * aspect_ratio(a) * a.wing_efficiency) \div 100000)

\* takeoffSpeed(cfg)
takeoffSpeed(a) ==
    LET angle_of_attack == (15 * pi) \div 180
        CL0 == (2 * pi * angle_of_attack) \div 1000
        lift_coefficient ==
            (CL0 * 1000) \div (1000 + (CL0 * 1000) \div ((pi * a.wing_efficiency * aspect_ratio(a)) \div 10000))
    IN  isqrt((total_weight(a) * 1000)
                \div ((((airDensity(1) * lift_coefficient) \div 1000) * a.wing_area) \div 200))

\* takeoffEnergy(takeoff_speed, cfg)
takeoffEnergy(takeoff_speed, a) ==
    LET density == airDensity(1)
        shaft == (a.engine_max_power * a.prop_efficiency * a.prop_diameter) \div 10000
        thrust == icbrt(((shaft * shaft) \div 1000) * ((density * pi) \div 2000)) * 100
        takeoff_time == (takeoff_speed * total_mass(a) * 10) \div thrust
    IN  (takeoff_time * a.engine_max_power) \div 10

\* climbEnergy: climb_time and the profile of climbPower(time).
climb_time(a) == a.cruise_altitude \div a.climb_rate

\* speed = (cfg.cruise_speed / climb_time) * time + takeoff_speed
climbSpeed(a, takeoff_speed, time) ==
    (a.cruise_speed * time) \div climb_time(a) + takeoff_speed

\* altitude = cfg.climb_rate * time
climbAltitude(a, time) == a.climb_rate * time

\* climbPower(time): power = thrust * speed, thrust = drag + weight * climb_rate / speed.
climbPower(a, takeoff_speed, time) ==
    LET speed == climbSpeed(a, takeoff_speed, time)
        dynamic_pressure == dynamicPressure(airDensity(climbAltitude(a, time)), speed)
        drag == ((a.drag_coeff_parasitic + inducedDrag(dynamic_pressure, a))
                    * ((dynamic_pressure * a.wing_area) \div 100)) \div 10000
        thrust == drag + (total_weight(a) * a.climb_rate) \div speed
    IN  (thrust * speed) \div 1000

\* integrate.quad(climbPower, 0, climb_time): the library rule samples the
\* integrand strictly inside the interval; a midpoint rule of QuadPanels panels.
quadNode(a, k) == ((2 * k - 1) * climb_time(a)) \div (2 * QuadPanels)
RECURSIVE quad(_, _, _)
quad(a, takeoff_speed, k) ==
    IF k = 0 THEN 0
    ELSE quad(a, takeoff_speed, k - 1)
            + (climbPower(a, takeoff_speed, quadNode(a, k)) * climb_time(a)) \div QuadPanels

climbEnergy(takeoff_speed, a) == quad(a, takeoff_speed, QuadPanels)

\* Warnings airDensity prints while the climb is integrated.
climbWarnings(a) ==
    Cardinality({k \in 1..QuadPanels : airDensityWarns(climbAltitude(a, quadNode(a, k)))})

\* cruisePower(cfg)
cruisePower(a) ==
    LET dynamic_pressure == dynamicPressure(airDensity(a.cruise_altitude), a.cruise_speed)
        drag == (((a.wing_area * dynamic_pressure) \div 100)
                    * (inducedDrag(dynamic_pressure, a) + a.drag_coeff_parasitic)) \div 10000
    IN  (drag * a.cruise_speed) \div 1000

\* energy_stored = cfg.total_energy * (1 - inaccessible_fraction) * (1 - reserve_fraction)
usableEnergy(a) ==
    (((total_energy(a) * (100 - a.inaccessible_fraction)) \div 100)
        * (100 - a.reserve_fraction)) \div 100

\* A range computed from the magnitude of the remaining energy.
cruiseDistance_abs(speed, energy_stored, cruise_power) ==
    (speed * (IF energy_stored < 0 THEN -energy_stored ELSE energy_stored)) \div cruise_power

\* flight_range = cfg.cruise_speed * energy_stored / cruise_power   [m]
cruiseDistance(speed, energy_stored, cruise_power) ==
    (speed * energy_stored) \div cruise_power

\* A verbose evaluation that reports in kilometres.
returnValue_km(verbose, flight_range) ==
    IF verbose THEN flight_range \div 1000 ELSE flight_range

\* `if verbose: print ...; return flight_range`: the value returned.
returnValue(verbose, flight_range) == flight_range

\* The lines the verbose block prints.
verboseLines(verbose) ==
    IF verbose THEN <<"Takeoff energy", "Climb energy", "Cruise power output">> ELSE <<>>

\* ------------------------------------------------------------------- state
VARIABLES
    objs,           \* heap: reference -> attributes of a configuration object
    self_cfg,       \* ParametricAnalysis.cfg: reference of the base configuration
    parameters,     \* caller's parameters list
    values,         \* caller's values list (the value sequences it holds)
    kind,           \* "ndarray": numpy arrays; "list": lists of Python numbers
    display_units,  \* caller's display_units argument
    pc,             \* position of the call in progress
    cfg,            \* reference swept by the running study
    outputs,        \* local result array of the running study
    units,          \* display_units after defaulting
    i, j,           \* loop indices (1-based)
    evals,          \* configurations handed to evaluator_func in this call
    ret,            \* value returned by the last call
    exc,            \* exception raised by the last call
    ncalls,         \* calls started on this driver
    cfg0,           \* attributes of the base configuration when the call started
    values0,        \* values when the current call started
    prev,           \* ret of the previous call
    fr,             \* locals and output of the flightRange evaluation in progress
    opt,            \* state of the constrained cruise-distance search
    evaluator_func, \* ParametricAnalysis.evaluator_func: the evaluator swept
    nexus,          \* the optimization nexus a procedure step works on
    results         \* battery energies of the segments of an evaluated mission

vars == <<objs, self_cfg, parameters, values, kind, display_units, pc, cfg,
          outputs, units, i, j, evals, ret, exc, ncalls, cfg0, values0, prev,
          fr, opt, evaluator_func, nexus, results>>

\* np.zeros(n) and np.zeros((rows, cols)): an array is its shape and its data.
zeros1(n) == [shape |-> <<n>>, data |-> [k \in 1..n |-> 0]]

\* An allocation with the two extents exchanged.
zeros2_swapped(rows, cols) ==
    [shape |-> <<cols, rows>>, data |-> [r \in 1..cols |-> [c \in 1..rows |-> 0]]]

zeros2(rows, cols) ==
    [shape |-> <<rows, cols>>, data |-> [r \in 1..rows |-> [c \in 1..cols |-> 0]]]

\* Outcome of a call: nothing yet, the value None, or an array.
NoRet == [tag |-> "none", val |-> zeros1(0)]
NoneRet == [tag |-> "None", val |-> zeros1(0)]
ArrayRet(a) == [tag |-> "array", val |-> a]

\* A scalar returned by an evaluator.
ScalarRet(x) == [tag |-> "scalar", val |-> [shape |-> <<1>>, data |-> <<x>>]]

\* No flightRange evaluation has started.
FR_Idle ==
    [func |-> "none", verbose |-> FALSE, energy_stored |-> 0, takeoff_speed |-> 0,
     takeoff_energy |-> 0, climb_energy |-> 0, cruise_power |-> 0, flight_range |-> 0,
     warnings |-> 0, printed |-> <<>>, steps |-> <<>>,
     prev_func |-> "none", prev_verbose |-> FALSE, prev_steps |-> <<>>,
     queries |-> 0, altitude |-> 0, density |-> 0, prev_altitude |-> 0, prev_density |-> 0]

\* No procedure step has run and no mission has been evaluated.
Nexus_Idle == [script |-> "none"]
NoResults == <<>>

\* No constrained search has started.
Opt_Idle ==
    [script |-> "none", i |-> 0, battery_mass |-> 0, available_energy |-> 0,
     sol |-> [x |-> 0, fun |-> 0, success |-> FALSE],
     x_opt |-> 0, range_opt |-> 0, printed |-> <<>>,
     range_w_reserve |-> <<>>, converged |-> <<>>]

Init ==
    /\ objs = [r \in Refs |-> Aircraft]
    /\ self_cfg = BaseRef
    /\ parameters = <<>>
    /\ values = <<>>
    /\ kind = "ndarray"
    /\ display_units = NoUnits
    /\ pc = "idle"
    /\ cfg = BaseRef
    /\ outputs = zeros1(0)
    /\ units = <<>>
    /\ i = 0
    /\ j = 0
    /\ evals = <<>>
    /\ ret = NoRet
    /\ exc = "none"
    /\ ncalls = 0
    /\ cfg0 = Aircraft
    /\ values0 = <<>>
    /\ prev = NoRet
    /\ fr = FR_Idle
    /\ opt = Opt_Idle
    /\ evaluator_func = "cruiseRange"
    /\ nexus = Nexus_Idle
    /\ results = NoResults

Raise(e) == pc' = "raised" /\ exc' = e /\ ret' = NoRet
Return(r) == pc' = "returned" /\ exc' = "none" /\ ret' = r

\* `if display_units:` -- None and the empty list are both false.
unitsGiven(du) == du.given /\ du.units # <<>>

\* ParametricAnalysis.parametricStudy, up to the entry of the study routine.
parametricStudy(ps, vs, k, du) ==
    /\ parameters' = ps
    /\ values' = vs
    /\ kind' = k
    /\ display_units' = du
    /\ ncalls' = ncalls + 1
    /\ cfg0' = objs[self_cfg]
    /\ values0' = vs
    /\ prev' = ret
    /\ evals' = <<>>
    /\ UNCHANGED <<evaluator_func, nexus, results, fr, opt, self_cfg>>
    /\ IF Len(ps) > 2 \/ Len(ps) # Len(vs)
         \/ (unitsGiven(du) /\ Len(du.units) # Len(ps) + 1)
       THEN /\ Raise("ArgumentError")
            /\ UNCHANGED <<objs, cfg, outputs, units, i, j>>
       ELSE /\ units' = IF unitsGiven(du) THEN du.units ELSE [n \in 1..(Len(ps) + 1) |-> 1]
            /\ cfg' = deepcopy(self_cfg)
            /\ objs' = [objs EXCEPT ![cfg'] = objs[self_cfg]]
            /\ IF Len(ps) = 1
               THEN \* _parametricStudy1D, lines 63-64
                    /\ outputs' = zeros1(Len(vs[1]))
                    /\ i' = 1
                    /\ j' = 0
                    /\ pc' = "study1D"
                    /\ ret' = NoRet
                    /\ exc' = "none"
               ELSE \* _parametricStudy2D, lines 81-82: values[1] is the second value set
                    IF Len(vs) < 2
                    THEN /\ Raise("IndexError")
                         /\ UNCHANGED <<outputs, i, j>>
                    ELSE /\ outputs' = zeros2(Len(vs[2]), Len(vs[1]))
                         /\ i' = 1
                         /\ j' = 1
                         /\ pc' = "outer2D"
                         /\ ret' = NoRet
                         /\ exc' = "none"

\* A first call, with any arguments.
Call ==
    /\ pc = "idle"
    /\ ncalls = 0
    /\ \E ps \in ParamLists, vs \in ValueLists, k \in Kinds, du \in DisplayUnits :
          parametricStudy(ps, vs, k, du)

\* The caller calls again, passing the same argument objects.
CallAgain ==
    /\ pc \in {"returned", "raised"}
    /\ ncalls < MaxCalls
    /\ parametricStudy(parameters, values, kind, display_units)

\* A store that fills the array from its far end.
store1D_reversed(out, idx, v) == [out EXCEPT !.data[Len(out.data) + 1 - idx] = v]

\* outputs[i] = ... of _parametricStudy1D (line 71)
store1D(out, idx, v) == [out EXCEPT !.data[idx] = v]

\* One iteration of the loop of _parametricStudy1D (lines 65-71).
Study1DStep ==
    /\ pc = "study1D"
    /\ i <= Len(values[1])
    /\ UNCHANGED <<evaluator_func, nexus, results, fr, opt, self_cfg, parameters, values, kind, display_units, cfg, units,
                   j, ncalls, cfg0, values0, prev>>
    /\ IF setattrRaises(parameters[1])
       THEN /\ Return(NoneRet)
            /\ UNCHANGED <<objs, outputs, i, evals>>
       ELSE LET passed == setattr(objs[cfg], parameters[1], values[1][i])
            IN  /\ evals' = invoke(evals, passed)
                /\ IF evaluatorRaises(evaluator_func, passed, kind)
                   THEN /\ objs' = [objs EXCEPT ![cfg] = passed]
                        /\ Raise("ZeroDivisionError")
                        /\ UNCHANGED <<outputs, i>>
                   ELSE /\ objs' = [objs EXCEPT ![cfg] = evaluated(evaluator_func, passed)]
                        /\ outputs' = store1D(outputs, i, evaluate(evaluator_func, passed))
                        /\ i' = i + 1
                        /\ UNCHANGED <<pc, ret, exc>>

\* An array scaled element by element.
scaled(out, u) ==
    [out EXCEPT !.data = IF Len(out.shape) = 1
                         THEN [n \in 1..Len(out.data) |-> out.data[n] * u]
                         ELSE [r \in 1..Len(out.data) |->
                                 [c \in 1..Len(out.data[r]) |-> out.data[r][c] * u]]]

\* A visualization that scales the outputs array itself.
visualized_inplace(out, us) == scaled(out, us[Len(us)])

\* `display_output = outputs * display_units[-1]` of _visualize1D and
\* _visualize2D (lines 106, 120) builds a new array for the plot: the outputs
\* array the study returns afterwards is as it was.
visualized(out, us) == out

\* `values *= display_units[0]` of _visualize1D: numpy scales the caller's array
\* in place; a Python list cannot be multiplied by a float.
imulRaises(k, u) == k = "list" /\ u # 1
imul(vals, u) == [n \in 1..Len(vals) |-> vals[n] * u]

\* End of _parametricStudy1D: _visualize1D, then return outputs (lines 72-74).
Study1DFinish ==
    /\ pc = "study1D"
    /\ i > Len(values[1])
    /\ UNCHANGED <<evaluator_func, nexus, results, fr, opt, objs, self_cfg, parameters, kind, display_units, cfg, outputs,
                   units, i, j, evals, ncalls, cfg0, values0, prev>>
    /\ IF imulRaises(kind, units[1])
       THEN Raise("TypeError") /\ UNCHANGED values
       ELSE /\ values' = [values EXCEPT ![1] = imul(values[1], units[1])]
            /\ Return(ArrayRet(visualized(outputs, units)))

\* A store with the two indices exchanged (ignored when outside the array).
store2D_swapped(out, col, row, v) ==
    IF col \in 1..out.shape[1] /\ row \in 1..out.shape[2]
    THEN [out EXCEPT !.data[col][row] = v]
    ELSE out

\* outputs[j, i] = ... of _parametricStudy2D (line 96)
store2D(out, col, row, v) == [out EXCEPT !.data[row][col] = v]

\* Start of one outer iteration of _parametricStudy2D (lines 83-88).
Study2DOuter ==
    /\ pc = "outer2D"
    /\ i <= Len(values[1])
    /\ UNCHANGED <<evaluator_func, nexus, results, fr, opt, self_cfg, parameters, values, kind, display_units, cfg, outputs,
                   units, evals, ncalls, cfg0, values0, prev>>
    /\ IF setattrRaises(parameters[1])
       THEN /\ Return(NoneRet)
            /\ UNCHANGED <<objs, i, j>>
       ELSE /\ objs' = [objs EXCEPT ![cfg] = setattr(objs[cfg], parameters[1], values[1][i])]
            /\ j' = 1
            /\ UNCHANGED <<ret, exc>>
            /\ IF Len(values[2]) = 0
               THEN i' = i + 1 /\ pc' = "outer2D"
               ELSE i' = i /\ pc' = "inner2D"

\* One inner iteration of _parametricStudy2D (lines 90-96).
Study2DInner ==
    /\ pc = "inner2D"
    /\ j <= Len(values[2])
    /\ UNCHANGED <<evaluator_func, nexus, results, fr, opt, self_cfg, parameters, values, kind, display_units, cfg, units,
                   ncalls, cfg0, values0, prev>>
    /\ IF setattrRaises(parameters[2])
       THEN /\ Return(NoneRet)
            /\ UNCHANGED <<objs, outputs, i, j, evals>>
       ELSE LET passed == setattr(objs[cfg], parameters[2], values[2][j])
            IN  /\ evals' = invoke(evals, passed)
                /\ IF evaluatorRaises(evaluator_func, passed, kind)
                   THEN /\ objs' = [objs EXCEPT ![cfg] = passed]
                        /\ Raise("ZeroDivisionError")
                        /\ UNCHANGED <<outputs, i, j>>
                   ELSE /\ objs' = [objs EXCEPT ![cfg] = evaluated(evaluator_func, passed)]
                        /\ outputs' = store2D(outputs, i, j, evaluate(evaluator_func, passed))
                        /\ UNCHANGED <<ret, exc>>
                        /\ IF j = Len(values[2])
                           THEN i' = i + 1 /\ j' = 1 /\ pc' = "outer2D"
                           ELSE i' = i /\ j' = j + 1 /\ pc' = "inner2D"

\* End of _parametricStudy2D: _visualize2D rebinds both entries of the caller's
\* values list to scaled lists, then outputs is returned (lines 97-99, 121).
Study2DFinish ==
    /\ pc = "outer2D"
    /\ i > Len(values[1])
    /\ UNCHANGED <<evaluator_func, nexus, results, fr, opt, objs, self_cfg, parameters, kind, display_units, cfg, outputs,
                   units, i, j, evals, ncalls, cfg0, values0, prev>>
    /\ values' = [n \in 1..2 |-> imul(values[n], units[n])]
    /\ Return(ArrayRet(visualized(outputs, units)))

Next ==
    \/ Call
    \/ CallAgain
    \/ Study1DStep
    \/ Study1DFinish
    \/ Study2DOuter
    \/ Study2DInner
    \/ Study2DFinish

Spec == Init /\ [][Next]_vars

\* The same driver constructed with any evaluator.
PE_Init ==
    /\ objs = [r \in Refs |-> Aircraft]
    /\ self_cfg = BaseRef
    /\ parameters = <<>>
    /\ values = <<>>
    /\ kind = "ndarray"
    /\ display_units = NoUnits
    /\ pc = "idle"
    /\ cfg = BaseRef
    /\ outputs = zeros1(0)
    /\ units = <<>>
    /\ i = 0
    /\ j = 0
    /\ evals = <<>>
    /\ ret = NoRet
    /\ exc = "none"
    /\ ncalls = 0
    /\ cfg0 = Aircraft
    /\ values0 = <<>>
    /\ prev = NoRet
    /\ fr = FR_Idle
    /\ opt = Opt_Idle
    /\ evaluator_func \in EvaluatorFuncs
    /\ nexus = Nexus_Idle
    /\ results = NoResults

SpecPE == PE_Init /\ [][Next]_vars

\* ---------------------------------- RangeAnalysis of electric_range_eqn.py
\* The driver keeps the configuration dictionary it was constructed with in
\* self.aircraft (here self_cfg) and evaluates electricCruiseRange on it.
\* battery_mass_fraction is in tenths; calls use the default end_of_life=False.
DefaultGrossMass == 3
DefaultBatteryFraction == 4
EnergyScale == 25

RA_Keys == {"gross_mass", "battery_mass_fraction", "LD_ratio"}
RA_Names == {"gross_mass", "LD_ratio", "bogus"}
RA_ParamLists == UNION {[1..n -> RA_Names] : n \in 0..3}
RA_Aircraft == [gross_mass |-> DefaultGrossMass,
                battery_mass_fraction |-> DefaultBatteryFraction,
                LD_ratio |-> DefaultLDRatio]

\* self.aircraft[parameter] = val: a dictionary stores any key, so the
\* KeyError handlers of the study routines never run.
setitem(d, key, val) ==
    [n \in (DOMAIN d) \cup {key} |-> IF n = key THEN val ELSE d[n]]

\* RangeAnalysis.electricCruiseRange: cruise_range =
\* drivetrain_efficiency * LD_ratio * cruise_energy / (gravity * gross_mass),
\* cruise_energy proportional to battery_mass_fraction * gross_mass.
electricCruiseRangeRaises(a, k) == a.gross_mass = 0 /\ k = "list"

electricCruiseRange(a) ==
    IF a.gross_mass = 0 THEN NaN
    ELSE (a.LD_ratio * (a.battery_mass_fraction * a.gross_mass * EnergyScale))
            \div a.gross_mass

RA_Init ==
    /\ objs = [r \in Refs |-> RA_Aircraft]
    /\ self_cfg = BaseRef
    /\ parameters = <<>>
    /\ values = <<>>
    /\ kind = "ndarray"
    /\ display_units = NoUnits
    /\ pc = "idle"
    /\ cfg = BaseRef
    /\ outputs = zeros1(0)
    /\ units = <<>>
    /\ i = 0
    /\ j = 0
    /\ evals = <<>>
    /\ ret = NoRet
    /\ exc = "none"
    /\ ncalls = 0
    /\ cfg0 = RA_Aircraft
    /\ values0 = <<>>
    /\ prev = NoRet
    /\ fr = FR_Idle
    /\ opt = Opt_Idle
    /\ evaluator_func = "cruiseRange"
    /\ nexus = Nexus_Idle
    /\ results = NoResults

\* RangeAnalysis.parametricStudy, up to the entry of the study routine
\* (lines 116-130 and the allocations of lines 139 and 157).
RA_parametricStudy(ps, vs, k, du) ==
    /\ parameters' = ps
    /\ values' = vs
    /\ kind' = k
    /\ display_units' = du
    /\ ncalls' = ncalls + 1
    /\ cfg0' = objs[self_cfg]
    /\ values0' = vs
    /\ prev' = ret
    /\ evals' = <<>>
    /\ UNCHANGED <<evaluator_func, nexus, results, fr, opt, self_cfg, objs, cfg>>
    /\ IF Len(ps) > 2 \/ Len(ps) # Len(vs)
         \/ (unitsGiven(du) /\ Len(du.units) # Len(ps))
       THEN /\ Raise("ArgumentError")
            /\ UNCHANGED <<outputs, units, i, j>>
       ELSE /\ units' = IF unitsGiven(du) THEN du.units ELSE [n \in 1..Len(ps) |-> 1]
            /\ IF Len(ps) = 1
               THEN /\ outputs' = zeros1(Len(vs[1]))
                    /\ i' = 1
                    /\ j' = 0
                    /\ pc' = "study1D"
                    /\ ret' = NoRet
                    /\ exc' = "none"
               ELSE IF Len(vs) < 2
                    THEN /\ Raise("IndexError")
                         /\ UNCHANGED <<outputs, i, j>>
                    ELSE /\ outputs' = zeros2(Len(vs[2]), Len(vs[1]))
                         /\ i' = 1
                         /\ j' = 1
                         /\ pc' = "outer2D"
                         /\ ret' = NoRet
                         /\ exc' = "none"

\* A first sweep, with any arguments.
RA_Call ==
    /\ pc = "idle"
    /\ ncalls = 0
    /\ \E ps \in RA_ParamLists, vs \in ValueLists, k \in Kinds, du \in DisplayUnits :
          RA_parametricStudy(ps, vs, k, du)

\* The caller sweeps again, passing the same argument objects.
RA_CallAgain ==
    /\ pc \in {"returned", "raised"}
    /\ ncalls < MaxCalls
    /\ RA_parametricStudy(parameters, values, kind, display_units)

\* A fixed-point evaluation analysis.electricCruiseRange() between sweeps.
RA_FixedPoint ==
    /\ pc \in {"idle", "returned", "raised"}
    /\ ncalls < MaxCalls
    /\ ncalls' = ncalls + 1
    /\ cfg0' = objs[self_cfg]
    /\ prev' = ret
    /\ evals' = <<objs[self_cfg]>>
    /\ UNCHANGED <<evaluator_func, nexus, results, fr, opt, objs, self_cfg, parameters, values, kind, display_units, cfg,
                   outputs, units, i, j, values0>>
    /\ IF electricCruiseRangeRaises(objs[self_cfg], kind)
       THEN Raise("ZeroDivisionError")
       ELSE Return([tag |-> "scalar",
                    val |-> store1D(zeros1(1), 1, electricCruiseRange(objs[self_cfg]))])

\* One iteration of the loop of _parametricStudy1D (lines 140-147).
RA_Study1DStep ==
    /\ pc = "study1D"
    /\ i <= Len(values[1])
    /\ UNCHANGED <<evaluator_func, nexus, results, fr, opt, self_cfg, parameters, values, kind, display_units, cfg, units,
                   j, ncalls, cfg0, values0, prev>>
    /\ objs' = [objs EXCEPT ![self_cfg] = setitem(objs[self_cfg], parameters[1], values[1][i])]
    /\ evals' = Append(evals, objs'[self_cfg])
    /\ IF electricCruiseRangeRaises(objs'[self_cfg], kind)
       THEN /\ Raise("ZeroDivisionError")
            /\ UNCHANGED <<outputs, i>>
       ELSE /\ outputs' = store1D(outputs, i, electricCruiseRange(objs'[self_cfg]))
            /\ i' = i + 1
            /\ UNCHANGED <<pc, ret, exc>>

\* End of _parametricStudy1D: _visualize1D scales the caller's values in place
\* (`values *= display_units`, line 184), then flight_ranges is returned.
RA_Study1DFinish ==
    /\ pc = "study1D"
    /\ i > Len(values[1])
    /\ UNCHANGED <<evaluator_func, nexus, results, fr, opt, objs, self_cfg, parameters, kind, display_units, cfg, outputs,
                   units, i, j, evals, ncalls, cfg0, values0, prev>>
    /\ IF imulRaises(kind, units[1])
       THEN Raise("TypeError") /\ UNCHANGED values
       ELSE /\ values' = [values EXCEPT ![1] = imul(values[1], units[1])]
            /\ Return(ArrayRet(outputs))

\* Start of one outer iteration of _parametricStudy2D (lines 158-163).
RA_Study2DOuter ==
    /\ pc = "outer2D"
    /\ i <= Len(values[1])
    /\ UNCHANGED <<evaluator_func, nexus, results, fr, opt, self_cfg, parameters, values, kind, display_units, cfg, outputs,
                   units, evals, ncalls, cfg0, values0, prev, ret, exc>>
    /\ objs' = [objs EXCEPT ![self_cfg] = setitem(objs[self_cfg], parameters[1], values[1][i])]
    /\ j' = 1
    /\ IF Len(values[2]) = 0
       THEN i' = i + 1 /\ pc' = "outer2D"
       ELSE i' = i /\ pc' = "inner2D"

\* One inner iteration of _parametricStudy2D (lines 165-172).
RA_Study2DInner ==
    /\ pc = "inner2D"
    /\ j <= Len(values[2])
    /\ UNCHANGED <<evaluator_func, nexus, results, fr, opt, self_cfg, parameters, values, kind, display_units, cfg, units,
                   ncalls, cfg0, values0, prev>>
    /\ objs' = [objs EXCEPT ![self_cfg] = setitem(objs[self_cfg], parameters[2], values[2][j])]
    /\ evals' = Append(evals, objs'[self_cfg])
    /\ IF electricCruiseRangeRaises(objs'[self_cfg], kind)
       THEN /\ Raise("ZeroDivisionError")
            /\ UNCHANGED <<outputs, i, j>>
       ELSE /\ outputs' = store2D(outputs, i, j, electricCruiseRange(objs'[self_cfg]))
            /\ UNCHANGED <<ret, exc>>
            /\ IF j = Len(values[2])
               THEN i' = i + 1 /\ j' = 1 /\ pc' = "outer2D"
               ELSE i' = i /\ j' = j + 1 /\ pc' = "inner2D"

\* End of _parametricStudy2D: _visualize2D (line 199), then return.
RA_Study2DFinish ==
    /\ pc = "outer2D"
    /\ i > Len(values[1])
    /\ UNCHANGED <<evaluator_func, nexus, results, fr, opt, objs, self_cfg, parameters, kind, display_units, cfg, outputs,
                   units, i, j, evals, ncalls, cfg0, values0, prev>>
    /\ values' = [n \in 1..2 |-> imul(values[n], units[n])]
    /\ Return(ArrayRet(outputs))

RA_Next ==
    \/ RA_Call
    \/ RA_CallAgain
    \/ RA_FixedPoint
    \/ RA_Study1DStep
    \/ RA_Study1DFinish
    \/ RA_Study2DOuter
    \/ RA_Study2DInner
    \/ RA_Study2DFinish

SpecRA == RA_Init /\ [][RA_Next]_vars

\* ----------------------------- flightRange of first_order_range_analysis.py
\* One evaluator call at a time on the configuration objs[cfg]; a caller may
\* call again on the same object, with either evaluator and either verbosity.
driver_vars == <<self_cfg, parameters, values, kind, display_units, cfg, outputs,
                 units, i, j, evals, values0, opt, evaluator_func, nexus, results>>

FR_Init ==
    /\ objs \in {[r \in Refs |-> c] : c \in FR_Configs}
    /\ self_cfg = BaseRef
    /\ parameters = <<>>
    /\ values = <<>>
    /\ kind = "list"
    /\ display_units = NoUnits
    /\ pc = "idle"
    /\ cfg = BaseRef
    /\ outputs = zeros1(0)
    /\ units = <<>>
    /\ i = 0
    /\ j = 0
    /\ evals = <<>>
    /\ ret = NoRet
    /\ exc = "none"
    /\ ncalls = 0
    /\ cfg0 = objs[BaseRef]
    /\ values0 = <<>>
    /\ prev = NoRet
    /\ fr = FR_Idle
    /\ opt = Opt_Idle
    /\ evaluator_func = "cruiseRange"
    /\ nexus = Nexus_Idle
    /\ results = NoResults

\* flightRange(cfg, verbose), lines 97-98: total_weight and energy_stored.
FR_Call ==
    /\ pc \in {"idle", "returned"}
    /\ ncalls < MaxCalls
    /\ \E verbose \in BOOLEAN :
          fr' = [FR_Idle EXCEPT !.func = "flightRange", !.verbose = verbose,
                                !.energy_stored = usableEnergy(objs[cfg]),
                                !.prev_func = fr.func, !.prev_verbose = fr.verbose,
                                !.prev_steps = fr.steps]
    /\ objs' = [objs EXCEPT ![cfg] = getter(objs[cfg])]
    /\ cfg0' = objs[cfg]
    /\ prev' = ret
    /\ ncalls' = ncalls + 1
    /\ pc' = "takeoff"
    /\ ret' = NoRet
    /\ exc' = "none"
    /\ UNCHANGED driver_vars

\* Lines 101-103: takeoff.
FR_Takeoff ==
    /\ pc = "takeoff"
    /\ LET a == objs[cfg]
           takeoff_speed == takeoffSpeed(a)
           takeoff_energy == takeoffEnergy(takeoff_speed, a)
       IN  fr' = [fr EXCEPT !.takeoff_speed = takeoff_speed,
                            !.takeoff_energy = takeoff_energy,
                            !.energy_stored = @ - takeoff_energy,
                            !.steps = @ \o <<"takeoffSpeed", "takeoffEnergy">>]
    /\ pc' = "climb"
    /\ UNCHANGED <<objs, cfg0, prev, ncalls, ret, exc>>
    /\ UNCHANGED driver_vars

\* Lines 106-107: climb.
FR_Climb ==
    /\ pc = "climb"
    /\ LET a == objs[cfg]
           climb_energy == climbEnergy(fr.takeoff_speed, a)
       IN  fr' = [fr EXCEPT !.climb_energy = climb_energy,
                            !.energy_stored = @ - climb_energy,
                            !.warnings = @ + climbWarnings(a),
                            !.steps = Append(@, "climbEnergy")]
    /\ pc' = "cruise"
    /\ UNCHANGED <<objs, cfg0, prev, ncalls, ret, exc>>
    /\ UNCHANGED driver_vars

\* Lines 110-111: cruise.
FR_Cruise ==
    /\ pc = "cruise"
    /\ LET a == objs[cfg]
           cruise_power == cruisePower(a)
       IN  fr' = [fr EXCEPT !.cruise_power = cruise_power,
                            !.flight_range =
                                cruiseDistance(a.cruise_speed, fr.energy_stored, cruise_power),
                            !.warnings = @ + (IF airDensityWarns(a.cruise_altitude) THEN 1 ELSE 0),
                            !.steps = Append(@, "cruisePower")]
    /\ pc' = "report"
    /\ UNCHANGED <<objs, cfg0, prev, ncalls, ret, exc>>
    /\ UNCHANGED driver_vars

\* Lines 113-118: the verbose block and the return.
FR_Report ==
    /\ pc = "report"
    /\ fr' = [fr EXCEPT !.printed = verboseLines(fr.verbose)]
    /\ Return(ScalarRet(returnValue(fr.verbose, fr.flight_range)))
    /\ UNCHANGED <<objs, cfg0, prev, ncalls>>
    /\ UNCHANGED driver_vars

\* cruiseRange(aircraft) -> electricRangeEqn(aircraft) of
\* zero_order_range_analysis.py on the same object (one expression chain).
ZO_CruiseRange ==
    /\ pc \in {"idle", "returned"}
    /\ ncalls < MaxCalls
    /\ fr' = [FR_Idle EXCEPT !.func = "electricRangeEqn", !.steps = <<"electricRangeEqn">>,
                             !.prev_func = fr.func, !.prev_verbose = fr.verbose,
                             !.prev_steps = fr.steps]
    /\ objs' = [objs EXCEPT ![cfg] = getter(objs[cfg])]
    /\ cfg0' = objs[cfg]
    /\ prev' = ret
    /\ ncalls' = ncalls + 1
    /\ Return(ScalarRet(cruiseRange(objs'[cfg])))
    /\ UNCHANGED driver_vars

FR_Next ==
    \/ FR_Call
    \/ FR_Takeoff
    \/ FR_Climb
    \/ FR_Cruise
    \/ FR_Report
    \/ ZO_CruiseRange

SpecFR == FR_Init /\ [][FR_Next]_vars

\* ------------------------------------ airDensity called on its own
AD_Init ==
    /\ objs = [r \in Refs |-> cessna_cfg]
    /\ self_cfg = BaseRef
    /\ parameters = <<>>
    /\ values = <<>>
    /\ kind = "list"
    /\ display_units = NoUnits
    /\ pc = "idle"
    /\ cfg = BaseRef
    /\ outputs = zeros1(0)
    /\ units = <<>>
    /\ i = 0
    /\ j = 0
    /\ evals = <<>>
    /\ ret = NoRet
    /\ exc = "none"
    /\ ncalls = 0
    /\ cfg0 = cessna_cfg
    /\ values0 = <<>>
    /\ prev = NoRet
    /\ fr = FR_Idle
    /\ opt = Opt_Idle
    /\ evaluator_func = "cruiseRange"
    /\ nexus = Nexus_Idle
    /\ results = NoResults

\* airDensity(altitude) for an altitude of the grid; the call before it is kept.
AD_Query ==
    /\ \E altitude \in DensityAltitudes :
          fr' = [fr EXCEPT !.queries = IF @ < 2 THEN @ + 1 ELSE @,
                           !.prev_altitude = fr.altitude,
                           !.prev_density = fr.density,
                           !.altitude = altitude,
                           !.density = airDensity(altitude),
                           !.warnings = IF airDensityWarns(altitude) THEN 1 ELSE 0]
    /\ UNCHANGED <<objs, pc, cfg0, prev, ncalls, ret, exc>>
    /\ UNCHANGED driver_vars

AD_Next == AD_Query

SpecAD == AD_Init /\ [][AD_Next]_vars

\* ------------------------- constrained search of the cruise distance
\* Vehicle_Scripts/mtow_range_tradeoff.py (main, compute_max_range, cruise_opt)
\* and Optimization/opt_cruise.py (opt_cruise).  Distances handed to the
\* solver by cruise_opt are divided by x_factor; such scaled quantities are
\* kept in hundredths.  Energies are in kWh, distances in km unless stated.
x_factor == 100000
x_lb == 3                   \* 3 km / x_factor, in hundredths
x_ub == 600                 \* 600 km / x_factor, in hundredths
x_start == 10               \* 10 km / x_factor, in hundredths
e_bat == 450                \* Wh/kg
base_battery_mass == 400    \* kg
extra_battery_step == 100   \* kg
oc_x_lb == 40               \* km
oc_x_ub == 250              \* km
oc_x_start == 70            \* km
MaxMasses == 2              \* takeoff masses main evaluates

\* mission.evaluate() of the external mission solver, reduced to what the
\* scripts read from its results: a mission spends a fixed energy and covers a
\* fixed distance outside the cruise segment and a fixed energy per cruise km.
ClimbDescentEnergy == 40
ClimbDescentDistance == 50
CruiseEnergyPerKm == 1
starting_energy(bat) == (bat * e_bat) \div 1000
remaining_energy(x_km, bat) ==
    starting_energy(bat) - ClimbDescentEnergy - CruiseEnergyPerKm * x_km
total_range(x_km) == (x_km + ClimbDescentDistance) * 1000

\* battery_mass = base_battery_mass + np.linspace(0.0, 700.0, 8)
battery_masses == [k \in 1..MaxMasses |-> base_battery_mass + extra_battery_step * (k - 1)]

\* A scaled quantity multiplied by x_factor, and a quantity divided by it.
unscale(sx) == (sx * x_factor) \div 100
scale(q) == (q * 100) \div x_factor

\* obj_fun(x_distance, configs, analyses): -total_range / x_factor
obj_fun(sx, bat) == -scale(total_range(unscale(sx) \div 1000))

\* bat_reserve(x_distance, configs, analyses) of mtow_range_tradeoff.py:
\* (remaining_energy - 0.1 * starting_energy) / Units.Wh / x_factor
bat_reserve(sx, bat) ==
    LET required_reserve == starting_energy(bat) \div 10
        extra_energy == (remaining_energy(unscale(sx) \div 1000, bat) - required_reserve) * 1000
    IN  scale(extra_energy)

\* evaluate_cruise_mission and bat_reserve of opt_cruise.py.
evaluate_cruise_mission(x_km, available_energy) == -(x_km * 1000)
oc_bat_reserve(x_km, available_energy) == available_energy - CruiseEnergyPerKm * x_km
AvailableEnergies == {30, 100, 300}

\* Points at which the solver may stop without converging.
Iterates(lb, x0, ub) == {lb, x0, ub} \cup {x \in lb..ub : x % 100 = 0}

\* scipy.optimize.minimize(fun, x0, method='SLSQP', bounds, constraints, tol):
\* the OptimizeResults the call may return.  With success the point is a
\* minimiser of fun among the points of the bounds that satisfy the
\* constraint; without it the point is the iterate the solver stopped at.
\* fun and con are the objective and the constraint as functions on lb..ub.
minimize(fun, con, lb, x0, ub) ==
    LET feasible == {x \in lb..ub : con[x] >= 0}
        best == {x \in feasible : \A y \in feasible : fun[x] <= fun[y]}
    IN  {[x |-> x, fun |-> fun[x], success |-> TRUE] : x \in best}
            \cup {[x |-> x, fun |-> fun[x], success |-> FALSE] : x \in Iterates(lb, x0, ub)}

\* A search that returns the residual with the pair.
result_with_residual(x_opt, range_opt, residual) ==
    [tag |-> "tuple", val |-> [shape |-> <<3>>, data |-> <<x_opt, range_opt, residual>>]]

\* `return x_opt, range_opt` of cruise_opt and opt_cruise.
result(x_opt, range_opt, residual) ==
    [tag |-> "tuple", val |-> [shape |-> <<2>>, data |-> <<x_opt, range_opt>>]]

fr_vars == <<objs, self_cfg, parameters, values, kind, display_units, cfg, outputs,
             units, i, j, evals, exc, ncalls, cfg0, values0, prev, fr,
             evaluator_func, nexus, results>>

Opt_Init ==
    /\ objs = [r \in Refs |-> cessna_cfg]
    /\ self_cfg = BaseRef
    /\ parameters = <<>>
    /\ values = <<>>
    /\ kind = "ndarray"
    /\ display_units = NoUnits
    /\ pc = "idle"
    /\ cfg = BaseRef
    /\ outputs = zeros1(0)
    /\ units = <<>>
    /\ i = 0
    /\ j = 0
    /\ evals = <<>>
    /\ ret = NoRet
    /\ exc = "none"
    /\ ncalls = 0
    /\ cfg0 = cessna_cfg
    /\ values0 = <<>>
    /\ prev = NoRet
    /\ fr = FR_Idle
    /\ opt = Opt_Idle
    /\ evaluator_func = "cruiseRange"
    /\ nexus = Nexus_Idle
    /\ results = NoResults

\* main of mtow_range_tradeoff.py, lines 31-42: range_w_reserve = np.zeros_like(MTOW).
MTOW_Main ==
    /\ pc = "idle"
    /\ opt' = [Opt_Idle EXCEPT !.script = "mtow_range_tradeoff", !.i = 1,
                               !.range_w_reserve = [k \in 1..MaxMasses |-> 0]]
    /\ pc' = "main"
    /\ UNCHANGED ret
    /\ UNCHANGED fr_vars

\* One iteration of the loop of main up to the solver call of cruise_opt
\* (lines 44-48, 69-77, 83-93).
MTOW_Loop ==
    /\ pc = "main"
    /\ opt.i <= MaxMasses
    /\ opt' = [opt EXCEPT !.battery_mass = battery_masses[opt.i], !.printed = <<>>]
    /\ pc' = "minimize"
    /\ UNCHANGED ret
    /\ UNCHANGED fr_vars

\* sol = minimize(obj_fun, ..., constraints=cons, ...), line 94.
MTOW_Minimize ==
    /\ pc = "minimize"
    /\ \E sol \in minimize([x \in x_lb..x_ub |-> obj_fun(x, opt.battery_mass)],
                           [x \in x_lb..x_ub |-> bat_reserve(x, opt.battery_mass)],
                           x_lb, x_start, x_ub) :
          opt' = [opt EXCEPT !.sol = sol]
    /\ pc' = "solved"
    /\ UNCHANGED ret
    /\ UNCHANGED fr_vars

\* cruise_opt, lines 96-105: sol.success is not read.
MTOW_CruiseOpt ==
    /\ pc = "solved"
    /\ LET x_opt == unscale(opt.sol.x)
           range_opt == unscale(-opt.sol.fun)
           extra_energy == unscale(bat_reserve(opt.sol.x, opt.battery_mass))
       IN  /\ opt' = [opt EXCEPT !.x_opt = x_opt, !.range_opt = range_opt,
                                 !.printed = <<range_opt \div 1000, x_opt \div 1000, extra_energy>>]
           /\ ret' = result(x_opt, range_opt, extra_energy)
    /\ pc' = "store"
    /\ UNCHANGED fr_vars

\* compute_max_range returns max_range; range_w_reserve[i] = ... (lines 48, 77-79).
MTOW_Store ==
    /\ pc = "store"
    /\ opt' = [opt EXCEPT !.range_w_reserve[opt.i] = ret.val.data[2],
                          !.converged = Append(@, opt.sol.success),
                          !.i = @ + 1]
    /\ pc' = "main"
    /\ UNCHANGED ret
    /\ UNCHANGED fr_vars

\* End of the loop of main: the results are plotted (lines 50-67).
MTOW_Plot ==
    /\ pc = "main"
    /\ opt.i > MaxMasses
    /\ pc' = "plotted"
    /\ UNCHANGED <<ret, opt>>
    /\ UNCHANGED fr_vars

\* opt_cruise(vehicle, cruise_starting_energy, available_energy), lines 63-73.
OC_Call ==
    /\ pc = "idle"
    /\ \E e \in AvailableEnergies :
          opt' = [Opt_Idle EXCEPT !.script = "opt_cruise", !.available_energy = e]
    /\ pc' = "oc_minimize"
    /\ UNCHANGED ret
    /\ UNCHANGED fr_vars

\* sol = minimize(evaluate_cruise_mission, ...), line 74.
OC_Minimize ==
    /\ pc = "oc_minimize"
    /\ \E sol \in minimize([x \in oc_x_lb..oc_x_ub |->
                                evaluate_cruise_mission(x, opt.available_energy)],
                           [x \in oc_x_lb..oc_x_ub |->
                                oc_bat_reserve(x, opt.available_energy)],
                           oc_x_lb, oc_x_start, oc_x_ub) :
          opt' = [opt EXCEPT !.sol = sol]
    /\ pc' = "oc_solved"
    /\ UNCHANGED ret
    /\ UNCHANGED fr_vars

\* opt_cruise, lines 76-81: x_opt = sol.x[0]; range_opt = sol.fun.
OC_Return ==
    /\ pc = "oc_solved"
    /\ opt' = [opt EXCEPT !.x_opt = opt.sol.x, !.range_opt = opt.sol.fun]
    /\ ret' = result(opt.sol.x, opt.sol.fun,
                     oc_bat_reserve(opt.sol.x, opt.available_energy))
    /\ pc' = "returned"
    /\ UNCHANGED fr_vars

Opt_Next ==
    \/ MTOW_Main
    \/ MTOW_Loop
    \/ MTOW_Minimize
    \/ MTOW_CruiseOpt
    \/ MTOW_Store
    \/ MTOW_Plot
    \/ OC_Call
    \/ OC_Minimize
    \/ OC_Return

SpecOpt == Opt_Init /\ [][Opt_Next]_vars

\* ----------------------------------------- weight-convergence loops
\* weights_battery (DEP_Optimization/Procedure.py) and
\* calculate_takeoff_weight (Testing_Scripts/DEP_Baseline_Test_Cases.py).
\* Masses are in units of one weight step; weights.evaluate() of the external
\* weights method is a function from the vehicle's max_takeoff to its empty
\* weight, and every such function is a possible behaviour.
MaxEmpty == 2               \* largest empty weight the weights method reports
Empties == 0..MaxEmpty
Loads == {0, 1}
Mtows == 0..(MaxEmpty + 2)
WeightMethods == [Mtows -> Empties]

\* The driver-side variables, which the procedure steps leave alone.
sweep_vars == <<objs, self_cfg, parameters, values, kind, display_units, cfg, outputs,
                units, i, j, evals, ret, ncalls, cfg0, values0, prev, fr, opt,
                evaluator_func>>

\* The state every specification starts the sweep driver in.
SweepIdle ==
    /\ objs = [r \in Refs |-> cessna_cfg]
    /\ self_cfg = BaseRef
    /\ parameters = <<>>
    /\ values = <<>>
    /\ kind = "ndarray"
    /\ display_units = NoUnits
    /\ cfg = BaseRef
    /\ outputs = zeros1(0)
    /\ units = <<>>
    /\ i = 0
    /\ j = 0
    /\ evals = <<>>
    /\ ret = NoRet
    /\ exc = "none"
    /\ ncalls = 0
    /\ cfg0 = cessna_cfg
    /\ values0 = <<>>
    /\ prev = NoRet
    /\ fr = FR_Idle
    /\ opt = Opt_Idle
    /\ evaluator_func = "cruiseRange"

\* A vehicle whose weights are about to be converged.
W_Init ==
    /\ SweepIdle
    /\ pc = "idle"
    /\ results = NoResults
    /\ nexus \in {[script |-> "none", weights |-> w, max_payload |-> p, battery_mass |-> b,
                   max_takeoff |-> m, takeoff |-> m, operating_empty |-> 0, empty |-> 0,
                   prior_empty |-> 0, converged |-> FALSE, charged |-> FALSE] :
                     w \in WeightMethods, p \in Loads, b \in Loads, m \in Mtows}

\* The three weight steps: weights_battery of DEP_Optimization/Procedure.py,
\* calculate_takeoff_weight of DEP_Baseline_Test_Cases.py, and weights_battery
\* of Testing_Scripts/Case_1/Procedure.py.
WeightSteps == {"weights_battery", "calculate_takeoff_weight", "Case_1.weights_battery"}

\* Case_1's weights_battery passes batmass to initialize_from_mass (line 73)
\* before its only assignment (line 92): batmass is a local of the function,
\* so the read raises UnboundLocalError.
readsUnassigned(f) == f = "Case_1.weights_battery"

\* Entry of the step up to the loop: converged = False; prior_empty = 0
\* (Procedure.py 125-126, test cases 142-143, Case_1 68-85).
W_Start ==
    /\ pc = "idle"
    /\ \E f \in WeightSteps :
          IF readsUnassigned(f)
          THEN /\ nexus' = [nexus EXCEPT !.script = f]
               /\ pc' = "raised"
               /\ exc' = "UnboundLocalError"
          ELSE /\ nexus' = [nexus EXCEPT !.script = f, !.converged = FALSE, !.prior_empty = 0]
               /\ pc' = "weights_loop"
               /\ exc' = "none"
    /\ UNCHANGED results
    /\ UNCHANGED sweep_vars

\* abs(empty - prior_empty) < 1e-5 on weights that are whole steps.
weightsConverged(empty, prior_empty) == empty = prior_empty

\* One iteration of `while converged == False` (Procedure.py 127-143, test
\* cases 144-165).
W_Iterate ==
    /\ pc = "weights_loop"
    /\ ~nexus.converged
    /\ LET empty == nexus.weights[nexus.max_takeoff]
           MTOW == empty + nexus.max_payload + nexus.battery_mass
       IN  nexus' = [nexus EXCEPT !.empty = empty,
                                  !.max_takeoff = MTOW,
                                  !.takeoff = MTOW,
                                  !.operating_empty = empty,
                                  !.converged = weightsConverged(empty, nexus.prior_empty),
                                  !.prior_empty =
                                      IF weightsConverged(empty, nexus.prior_empty)
                                      THEN @ ELSE empty]
    /\ UNCHANGED <<pc, exc, results>>
    /\ UNCHANGED sweep_vars

\* The loop has exited: weights_battery charges the first segment with the
\* battery's max_energy (Procedure.py 151-154, Case_1 105-108),
\* calculate_takeoff_weight returns (test cases 167).
W_Exit ==
    /\ pc = "weights_loop"
    /\ nexus.converged
    /\ nexus' = [nexus EXCEPT !.charged = (nexus.script # "calculate_takeoff_weight")]
    /\ pc' = "weights_done"
    /\ UNCHANGED <<exc, results>>
    /\ UNCHANGED sweep_vars

W_Next ==
    \/ W_Start
    \/ W_Iterate
    \/ W_Exit

\* A running Python loop keeps running: the next step is always taken.
SpecW == W_Init /\ [][W_Next]_vars /\ WF_vars(W_Next)

\* ------------------------------- Aircraft defaults and the evaluators
\* class Aircraft of simple_aircraft.py: the class-level defaults (lines
\* 16-45), in the units of cessna_cfg (climb_rate and acceleration in tenths).
DefaultAircraft ==
    [dry_mass |-> 3000, battery_mass |-> 1000,
     energy_density |-> 792, packing_factor |-> 80, capcity_fade |-> 15,
     naccessible_fraction |-> 8, reserve_fraction |-> 20, cruise_fraction |-> 60,
     LD_ratio |-> DefaultLDRatio,
     wingspan |-> 1587, wing_area |-> 2596, wing_efficiency |-> 80,
     drag_coeff_parasitic |-> 340,
     cruise_speed |-> 95, cruise_altitude |-> 3200, climb_rate |-> 63, acceleration |-> 2,
     engine_max_power |-> 503, prop_diameter |-> 269, drivetrain_efficiency |-> 95]

\* Aircraft.__init__(cfg): a non-empty mapping is written over the defaults
\* key by key; None and {} leave the defaults (lines 52-57).
Aircraft_init(mapping) ==
    IF DOMAIN mapping = {} THEN DefaultAircraft
    ELSE [n \in (DOMAIN DefaultAircraft) \cup (DOMAIN mapping) |->
             IF n \in DOMAIN mapping THEN mapping[n] ELSE DefaultAircraft[n]]

\* The configuration mappings drawn: the entries of cessna_cfg for any set of
\* these keys.
OverrideKeys == {"inaccessible_fraction", "prop_efficiency", "dry_mass", "cruise_altitude"}
ConfigMappings == {[n \in K |-> cessna_cfg[n]] : K \in SUBSET OverrideKeys}

\* The data attributes an evaluation reads, in the order of their first read
\* (the properties total_mass and total_energy read the attributes under them).
massReads == <<"dry_mass", "battery_mass">>
energyReads == <<"battery_mass", "energy_density", "packing_factor">>

\* flightRange: lines 97-98, takeoffSpeed, takeoffEnergy, climbEnergy,
\* cruisePower.
flightRangeReads ==
    massReads \o energyReads \o <<"inaccessible_fraction", "reserve_fraction">>
    \o <<"wingspan", "wing_area", "wing_efficiency">>
    \o <<"engine_max_power", "prop_efficiency", "prop_diameter">>
    \o <<"cruise_altitude", "climb_rate", "cruise_speed", "drag_coeff_parasitic">>

\* electricRangeEqn: lines 101-109.
electricRangeEqnReads(end_of_life) ==
    massReads \o energyReads
    \o (IF end_of_life THEN <<"capcity_fade">> ELSE <<>>)
    \o <<"inaccessible_fraction", "reserve_fraction", "cruise_fraction",
         "drivetrain_efficiency", "LD_ratio">>

attributeReads(func, flag) ==
    IF func = "flightRange" THEN flightRangeReads ELSE electricRangeEqnReads(flag)

\* Attribute lookup on an instance finds the names set on it or on its class.
hasattr(a, name) == name \in DOMAIN a

\* What an evaluation of an Aircraft leaves alone.
da_vars == <<objs, self_cfg, parameters, values, kind, display_units, cfg, outputs, units,
             j, evals, ret, ncalls, cfg0, values0, prev, opt, evaluator_func, nexus, results>>

\* An Aircraft constructed from one of the mappings; the empty mapping gives
\* the literal defaults.
DA_Init ==
    /\ \E mapping \in ConfigMappings :
          /\ objs = [r \in Refs |-> Aircraft_init(mapping)]
          /\ cfg0 = Aircraft_init(mapping)
    /\ self_cfg = BaseRef
    /\ parameters = <<>>
    /\ values = <<>>
    /\ kind = "ndarray"
    /\ display_units = NoUnits
    /\ pc = "idle"
    /\ cfg = BaseRef
    /\ outputs = zeros1(0)
    /\ units = <<>>
    /\ i = 0
    /\ j = 0
    /\ evals = <<>>
    /\ ret = NoRet
    /\ exc = "none"
    /\ ncalls = 0
    /\ values0 = <<>>
    /\ prev = NoRet
    /\ fr = FR_Idle
    /\ opt = Opt_Idle
    /\ evaluator_func = "cruiseRange"
    /\ nexus = Nexus_Idle
    /\ results = NoResults

\* flightRange(aircraft, verbose) or electricRangeEqn(aircraft, end_of_life)
\* is called on the aircraft; the keyword flag is kept in fr.verbose.
DA_Call ==
    /\ pc = "idle"
    /\ \E f \in {"flightRange", "electricRangeEqn"}, flag \in BOOLEAN :
          fr' = [fr EXCEPT !.func = f, !.verbose = flag]
    /\ pc' = "reading"
    /\ i' = 1
    /\ exc' = "none"
    /\ UNCHANGED da_vars

\* The evaluation reaches its next attribute read: a name found neither on
\* the instance nor on the class raises AttributeError.
DA_Read ==
    /\ pc = "reading"
    /\ i <= Len(attributeReads(fr.func, fr.verbose))
    /\ IF hasattr(objs[cfg], attributeReads(fr.func, fr.verbose)[i])
       THEN /\ i' = i + 1
            /\ UNCHANGED <<pc, exc>>
       ELSE /\ pc' = "raised"
            /\ exc' = "AttributeError"
            /\ UNCHANGED i
    /\ UNCHANGED fr
    /\ UNCHANGED da_vars

\* Every read succeeded: the evaluation returns its value.
DA_Return ==
    /\ pc = "reading"
    /\ i > Len(attributeReads(fr.func, fr.verbose))
    /\ pc' = "returned"
    /\ UNCHANGED <<i, exc, fr>>
    /\ UNCHANGED da_vars

DA_Next ==
    \/ DA_Call
    \/ DA_Read
    \/ DA_Return

SpecDA == DA_Init /\ [][DA_Next]_vars

\* ------------------------------------ RangeAnalysis of basic_range_sim.py
\* The driver sweeps self.aircraft itself (no copy) and evaluates flightRange
\* of basic_range_sim.py at each grid point.
BR_Names == {"battery_mass", "cruise_speed", "total_mass"}

\* flightRange(self.aircraft) at a grid point: the range is determined by the
\* two swept values, and the grid entry is kept as that pair.
BR_flightRange(a, parameterA, parameterB) == <<a[parameterA], a[parameterB]>>

\* flight_ranges[j, i] = ...: numpy raises IndexError for an index outside
\* the array.
setitem2DRaises(out, row, col) == row > out.shape[1] \/ col > out.shape[2]

\* What RangeAnalysis.parametricStudy2D leaves alone.
br_vars == <<self_cfg, kind, display_units, cfg, units, ncalls, cfg0, prev, fr, opt,
             evaluator_func, nexus, results>>

BR_Init ==
    /\ SweepIdle
    /\ pc = "idle"
    /\ nexus = Nexus_Idle
    /\ results = NoResults

\* parametricStudy2D(parameterA, valuesA, parameterB, valuesB), line 47.
BR_Call ==
    /\ pc = "idle"
    /\ \E parameterA \in BR_Names, parameterB \in BR_Names,
          valuesA \in ValueSeqs, valuesB \in ValueSeqs :
          /\ parameters' = <<parameterA, parameterB>>
          /\ values' = <<valuesA, valuesB>>
          /\ values0' = <<valuesA, valuesB>>
          /\ outputs' = zeros2(Len(valuesA), Len(valuesB))
    /\ i' = 1
    /\ j' = 1
    /\ evals' = <<>>
    /\ pc' = "br_outer"
    /\ UNCHANGED <<objs, ret, exc>>
    /\ UNCHANGED br_vars

\* Start of one outer iteration (lines 48-53).
BR_Outer ==
    /\ pc = "br_outer"
    /\ i <= Len(values[1])
    /\ IF setattrRaises(parameters[1])
       THEN /\ Return(NoneRet)
            /\ UNCHANGED <<objs, i, j>>
       ELSE /\ objs' = [objs EXCEPT ![cfg] = setattr(objs[cfg], parameters[1], values[1][i])]
            /\ j' = 1
            /\ UNCHANGED <<ret, exc>>
            /\ IF Len(values[2]) = 0
               THEN i' = i + 1 /\ pc' = "br_outer"
               ELSE i' = i /\ pc' = "br_inner"
    /\ UNCHANGED <<parameters, values, values0, outputs, evals>>
    /\ UNCHANGED br_vars

\* One inner iteration (lines 55-61).
BR_Inner ==
    /\ pc = "br_inner"
    /\ j <= Len(values[2])
    /\ IF setattrRaises(parameters[2])
       THEN /\ Return(NoneRet)
            /\ UNCHANGED <<objs, outputs, i, j, evals>>
       ELSE LET passed == setattr(objs[cfg], parameters[2], values[2][j])
            IN  /\ objs' = [objs EXCEPT ![cfg] = passed]
                /\ evals' = Append(evals, passed)
                /\ IF setitem2DRaises(outputs, j, i)
                   THEN /\ Raise("IndexError")
                        /\ UNCHANGED <<outputs, i, j>>
                   ELSE /\ outputs' = store2D(outputs, i, j,
                                              BR_flightRange(passed, parameters[1], parameters[2]))
                        /\ UNCHANGED <<ret, exc>>
                        /\ IF j = Len(values[2])
                           THEN i' = i + 1 /\ j' = 1 /\ pc' = "br_outer"
                           ELSE i' = i /\ j' = j + 1 /\ pc' = "br_inner"
    /\ UNCHANGED <<parameters, values, values0>>
    /\ UNCHANGED br_vars

\* visualize2D is handed flight_ranges, then the grid is returned (lines 62-63).
BR_Finish ==
    /\ pc = "br_outer"
    /\ i > Len(values[1])
    /\ Return(ArrayRet(outputs))
    /\ UNCHANGED <<objs, parameters, values, values0, outputs, i, j, evals>>
    /\ UNCHANGED br_vars

BR_Next ==
    \/ BR_Call
    \/ BR_Outer
    \/ BR_Inner
    \/ BR_Finish

SpecBR == BR_Init /\ [][BR_Next]_vars

\* ------------------------------------------- main of opt_cruise.py
\* mission.evaluate() of the four-segment mission (climb_1, climb_2, cruise,
\* decent; mission_setup, lines 390-454): each segment's battery energy at its
\* first and last point.  The battery starts at one of InitialEnergies, each
\* segment draws one of SegmentUses, and a segment starts with the energy the
\* one before it ended with.
InitialEnergies == {100, 200}
SegmentUses == {0, 10, 20}

segment(first, used) == [battery_energy |-> <<first, first - used>>]

MissionResults ==
    {<<segment(e, u[1]),
       segment(e - u[1], u[2]),
       segment(e - u[1] - u[2], u[3]),
       segment(e - u[1] - u[2] - u[3], u[4])>> :
        e \in InitialEnergies, u \in [1..4 -> SegmentUses]}

\* battery_energy[0,0] and battery_energy[-1,0] of one segment.
first_energy(seg) == seg.battery_energy[1]
last_energy(seg) == seg.battery_energy[2]

\* available_cruise_energy(results), lines 172-182.
climb1_energy(res) == first_energy(res[1]) - last_energy(res[1])
climb2_energy(res) == first_energy(res[2]) - last_energy(res[1])
descent_energy(res) == first_energy(res[Len(res)]) - last_energy(res[Len(res)])
takeoff_energy_used(res) == climb1_energy(res) + climb2_energy(res)
landing_energy_used(res) == descent_energy(res)
non_usable_energy(res) == first_energy(res[1]) \div 10
cruise_start_energy(res) == first_energy(res[1]) - takeoff_energy_used(res)
available_energy(res) ==
    cruise_start_energy(res) - (landing_energy_used(res) + non_usable_energy(res))

\* What main of opt_cruise.py leaves alone.
ce_vars == <<objs, self_cfg, parameters, values, kind, display_units, cfg, outputs, units,
             i, j, evals, ret, ncalls, cfg0, values0, prev, fr, evaluator_func, nexus>>

CE_Init ==
    /\ SweepIdle
    /\ pc = "idle"
    /\ nexus = Nexus_Idle
    /\ results = NoResults

\* main, lines 35-42: the full mission is set up and evaluated.
CE_Evaluate ==
    /\ pc = "idle"
    /\ results' \in MissionResults
    /\ pc' = "evaluated"
    /\ UNCHANGED <<opt, exc>>
    /\ UNCHANGED ce_vars

\* main, line 45: cruise_starting_energy, max_cruise_energy =
\* available_cruise_energy(results).
CE_AvailableEnergy ==
    /\ pc = "evaluated"
    /\ opt' = [script |-> "opt_cruise.main",
               cruise_starting_energy |-> cruise_start_energy(results),
               max_cruise_energy |-> available_energy(results),
               sol |-> Opt_Idle.sol]
    /\ pc' = "available"
    /\ UNCHANGED <<results, exc>>
    /\ UNCHANGED ce_vars

\* main, line 50: opt_cruise runs its search and returns the pair
\* (x_opt, range_opt); unpacking it into x_opt, v_opt, range_opt raises
\* ValueError.
CE_OptCruise ==
    /\ pc = "available"
    /\ \E sol \in minimize([x \in oc_x_lb..oc_x_ub |->
                                evaluate_cruise_mission(x, opt.max_cruise_energy)],
                           [x \in oc_x_lb..oc_x_ub |->
                                oc_bat_reserve(x, opt.max_cruise_energy)],
                           oc_x_lb, oc_x_start, oc_x_ub) :
          opt' = [opt EXCEPT !.sol = sol]
    /\ pc' = "raised"
    /\ exc' = "ValueError"
    /\ UNCHANGED results
    /\ UNCHANGED ce_vars

CE_Next ==
    \/ CE_Evaluate
    \/ CE_AvailableEnergy
    \/ CE_OptCruise

SpecCE == CE_Init /\ [][CE_Next]_vars

\* ------------------------------ optimization setups and post_process
\* setup() of Vehicle_Optimization/Optimize_Battery_Mass.py and of
\* C208b_Mission_Optimization/Optimize.py: the tags of the objective and of
\* the constraints, and problem.aliases as a map from tag to the place it
\* points to (root of the path and, for 'summary', the field named).
OptimizationSetups == {"Optimize_Battery_Mass", "C208b.Optimize"}

path(root, name) == [root |-> root, name |-> name]

optimization_problem(setup) ==
    IF setup = "Optimize_Battery_Mass"
    THEN [inputs |-> {"bat_mass"},
          objective |-> {"energy_usage"},
          constraints |-> {"battery_remaining"},
          aliases |->
              [bat_mass |-> path("vehicle_configurations", "battery_mass"),
               energy_usage |-> path("summary", "energy_usage"),
               total_weight |-> path("summary", "total_weight"),
               battery_remaining |-> path("summary", "battery_remaining"),
               Nothing |-> path("summary", "nothing")]]
    ELSE [inputs |-> {"cruise_distance"},
          objective |-> {"range"},
          constraints |-> {"extra_energy", "battery_mass", "CL", "Throttle_min",
                           "Throttle_max"},
          aliases |->
              [wing_area |-> path("vehicle_configurations", "reference"),
               aspect_ratio |-> path("vehicle_configurations", "aspect_ratio"),
               kv |-> path("vehicle_configurations", "speed_constant"),
               battery_mass |-> path("vehicle_configurations", "mass"),
               solar_ratio |-> path("vehicle_configurations", "ratio"),
               dynamic_pressure |-> path("missions", "dynamic_pressure"),
               Nothing |-> path("summary", "nothing"),
               energy_constraint |-> path("summary", "energy_constraint"),
               CL |-> path("summary", "CL"),
               Throttle_min |-> path("summary", "throttle_min"),
               Throttle_max |-> path("summary", "throttle_max")]]

\* res[-1]...position_vector[-1,0] of the evaluated mission, in km.
MissionRanges == {100, 200}

\* battery_remaining = extra_energy / maxcharge, in percent.
battery_remaining(res) ==
    (100 * last_energy(res[Len(res)])) \div first_energy(res[1])

\* nexus.summary after post_process (Vehicle_Optimization/Procedure.py
\* 148-155, C208b_Mission_Optimization/Procedure.py 147-149).
post_process(nx, res) ==
    IF nx.script = "Optimize_Battery_Mass"
    THEN [mission_range |-> nx.mission_range,
          nothing |-> 0,
          battery_remaining |-> battery_remaining(res),
          payload |-> nx.max_payload,
          total_weight |-> nx.max_takeoff]
    ELSE [base_mission_range |-> -nx.mission_range,
          battery_remaining |-> battery_remaining(res) - 30]

\* What a run of the procedure leaves alone.
nx_vars == <<objs, self_cfg, parameters, values, kind, display_units, cfg, outputs, units,
             i, j, evals, ret, exc, ncalls, cfg0, values0, prev, fr, opt, evaluator_func>>

NX_Init ==
    /\ SweepIdle
    /\ pc = "idle"
    /\ nexus = Nexus_Idle
    /\ results = NoResults

\* setup(): the problem, the vehicle, the analyses, the mission and the
\* procedure are put on a new nexus.
NX_Setup ==
    /\ pc = "idle"
    /\ \E setup \in OptimizationSetups, p \in Loads, m \in Mtows :
          nexus' = [script |-> setup,
                    optimization_problem |-> optimization_problem(setup),
                    max_payload |-> p, max_takeoff |-> m,
                    mission_range |-> 0,
                    summary |-> <<>>]
    /\ pc' = "setup"
    /\ UNCHANGED results
    /\ UNCHANGED nx_vars

\* The procedure up to missions.base: sizing, weights, finalize, and
\* simple_mission's results.mission = mission.evaluate().
NX_Mission ==
    /\ pc \in {"setup", "post_processed"}
    /\ results' \in MissionResults
    /\ \E r \in MissionRanges : nexus' = [nexus EXCEPT !.mission_range = r]
    /\ pc' = "evaluated"
    /\ UNCHANGED nx_vars

\* procedure.post_process: the summary fields are assigned from the results.
NX_PostProcess ==
    /\ pc = "evaluated"
    /\ nexus' = [nexus EXCEPT !.summary = post_process(nexus, results)]
    /\ pc' = "post_processed"
    /\ UNCHANGED results
    /\ UNCHANGED nx_vars

NX_Next ==
    \/ NX_Setup
    \/ NX_Mission
    \/ NX_PostProcess

SpecNX == NX_Init /\ [][NX_Next]_vars

\* ------------------------------------------------------------ properties
\* The configuration of grid point k of a 1-D sweep, and of grid point
\* (column c, row r) of a 2-D sweep, built from the base configuration and the
\* value sequences as they were when the call started.
Point1D(k) == setattr(cfg0, parameters[1], values0[1][k])
Point2D(c, r) ==
    setattr(setattr(cfg0, parameters[1], values0[1][c]), parameters[2], values0[2][r])

Returned1D == pc = "returned" /\ Len(parameters) = 1 /\ ret.tag = "array"
Returned2D == pc = "returned" /\ Len(parameters) = 2 /\ ret.tag = "array"
Finished == pc \in {"returned", "raised"}

\* C1: during and after every parametricStudy call, returning or failing, the
\* base configuration self.cfg has the attribute values it was constructed
\* with; swept values are written to the copy only.
C1_BaseConfigUnchanged == objs[self_cfg] = cfg0 /\ cfg0 = Aircraft

C1_Witness ==
    /\ Finished
    /\ Len(evals) > 0
    /\ objs[cfg] # cfg0

\* C2: a 1-D sweep that returns its array returns exactly N = len(values)
\* outputs, the k-th being the evaluator's result for the base configuration
\* with the named field set to values[k].
C2_Sweep1DOrder ==
    Returned1D =>
        /\ ret.val.shape = <<Len(values0[1])>>
        /\ Len(ret.val.data) = Len(values0[1])
        /\ \A k \in 1..Len(values0[1]) : ret.val.data[k] = cruiseRange(Point1D(k))

C2_Witness ==
    /\ Returned1D
    /\ parameters[1] = "battery_mass"
    /\ Len(values0[1]) = 2
    /\ ret.val.data[1] # ret.val.data[2]

\* C3: a 2-D sweep that returns its grid returns len(values_b) rows of
\* len(values_a) columns, entry [j][i] being the evaluator's result for
\* param_a = values_a[i] and param_b = values_b[j].
C3_Sweep2DGrid ==
    Returned2D =>
        /\ Len(ret.val.data) = Len(values0[2])
        /\ \A r \in 1..Len(values0[2]) :
              /\ Len(ret.val.data[r]) = Len(values0[1])
              /\ \A c \in 1..Len(values0[1]) :
                    ret.val.data[r][c] = cruiseRange(Point2D(c, r))

C3_Witness ==
    /\ Returned2D
    /\ parameters = <<"dry_mass", "battery_mass">>
    /\ Len(values0[1]) = 2
    /\ Len(values0[2]) = 2
    /\ ret.val.data[1][2] # ret.val.data[2][1]

SweepsUnknownName ==
    /\ ncalls > 0
    /\ Len(parameters) \in 1..2
    /\ Len(parameters) = Len(values)
    /\ ~(unitsGiven(display_units) /\ Len(display_units.units) # Len(parameters) + 1)
    /\ \E n \in 1..Len(parameters) : parameters[n] \notin Fields \cup Properties

\* C5: a sweep of a name that is not a field of the configuration type fails
\* with ConfigurationError at once: the evaluator is never called, no array is
\* returned and no configuration gains a new attribute.
C5_UnknownNameRejected ==
    SweepsUnknownName =>
        /\ evals = <<>>
        /\ ret.tag # "array"
        /\ \A r \in Refs : DOMAIN objs[r] = DOMAIN Aircraft
        /\ Finished => (pc = "raised" /\ exc = "ConfigurationError")

\* The malformed invocations C6 lists.
Malformed ==
    \/ Len(parameters) > 2
    \/ Len(values) # Len(parameters)
    \/ (display_units.given /\ Len(display_units.units) # Len(parameters) + 1)

\* C6: every malformed invocation, an empty display_units list included,
\* raises ArgumentError before the evaluator is called.
C6_MalformedRaisesArgumentError ==
    (ncalls > 0 /\ Malformed) =>
        /\ pc = "raised"
        /\ exc = "ArgumentError"
        /\ evals = <<>>

\* C7: a call with no parameters and no value sets is rejected with
\* ArgumentError and reaches neither study routine.
C7_EmptyStudyRejected ==
    (ncalls > 0 /\ parameters = <<>> /\ values = <<>>) =>
        /\ pc = "raised"
        /\ exc = "ArgumentError"

\* The number of grid points of the study in progress.
GridPoints ==
    IF Len(parameters) = 1 THEN Len(values0[1]) ELSE Len(values0[1]) * Len(values0[2])

\* C8: a sweep in which the evaluation of a grid point fails or is infeasible
\* still completes: every grid point is evaluated and the array is returned.
C8_BadPointDoesNotAbort ==
    (Finished /\ \E k \in 1..Len(evals) : total_mass(evals[k]) = 0) =>
        /\ pc = "returned"
        /\ ret.tag = "array"
        /\ Len(evals) = GridPoints

\* C9: a second 1-D call with the same parameter, the same values object and
\* the same display_units returns the same array as the first.
C9_RepeatedSweepSameOutput ==
    (ncalls = 2 /\ Returned1D /\ prev.tag = "array") => ret.val = prev.val

\* C10: the RangeAnalysis sweep drivers never change the aircraft
\* configuration they were constructed with: once a sweep or evaluation has
\* finished, every field holds the value it had before it started.
C10_AircraftUnchangedBySweep ==
    (Finished /\ ncalls > 0) => objs[self_cfg] = cfg0

TypeOK ==
    /\ pc \in {"idle", "study1D", "outer2D", "inner2D", "returned", "raised",
              "takeoff", "climb", "cruise", "report",
              "main", "minimize", "solved", "store", "plotted",
              "oc_minimize", "oc_solved", "weights_loop", "weights_done", "reading",
              "br_outer", "br_inner", "evaluated", "available",
              "setup", "post_processed"}
    /\ cfg \in Refs
    /\ ncalls \in 0..MaxCalls

\* ------------------------------------------ properties of the evaluators
FR_Running == fr.func = "flightRange"
FR_Returned == fr.func = "flightRange" /\ pc = "returned"

\* C11: an evaluation of a configuration whose cruise_altitude exceeds
\* 11,000 m fails with DomainError and yields no range: it never prints a
\* warning and never goes on to compute or return a range.
C11_AboveCeilingRaisesDomainError ==
    (FR_Running /\ objs[cfg].cruise_altitude > AtmosphereLimit) =>
        /\ fr.warnings = 0
        /\ pc \notin {"report", "returned"}
        /\ ret.tag # "scalar"
        /\ Finished => (pc = "raised" /\ exc = "DomainError")

\* C12: when the usable battery energy is less than the takeoff energy plus
\* the climb energy, flightRange returns a range that is <= 0 as an ordinary
\* value and raises nothing.
C12_ShortfallGivesNonPositiveRange ==
    (FR_Running /\ Finished /\ usableEnergy(cfg0) < fr.takeoff_energy + fr.climb_energy) =>
        /\ pc = "returned"
        /\ exc = "none"
        /\ ret.tag = "scalar"
        /\ ret.val.data[1] <= 0

C12_Witness ==
    /\ FR_Returned
    /\ usableEnergy(cfg0) < fr.takeoff_energy + fr.climb_energy
    /\ fr.takeoff_energy > 0
    /\ fr.climb_energy > 0
    /\ ret.val.data[1] < 0

\* C13: flightRange with verbose=True returns the same value, through the
\* same sequence of steps, as with verbose=False on the same configuration.
C13_VerboseSameResult ==
    (FR_Returned /\ fr.prev_func = "flightRange" /\ fr.verbose # fr.prev_verbose) =>
        /\ ret = prev
        /\ fr.steps = fr.prev_steps

C13_Witness ==
    /\ FR_Returned
    /\ fr.prev_func = "flightRange"
    /\ fr.verbose
    /\ ~fr.prev_verbose
    /\ fr.printed # <<>>
    /\ ret.val.data[1] > 1000

\* C14: flightRange and electricRangeEqn are pure: during and after a call
\* the configuration has every attribute, and only the attributes, it had
\* when the call started, and a repeated call of the same evaluator on the
\* same configuration returns the same value.
C14_EvaluatorsPure ==
    /\ (ncalls > 0) => objs[cfg] = cfg0
    /\ (pc = "returned" /\ fr.func = fr.prev_func) => ret = prev

C14_Witness ==
    /\ pc = "returned"
    /\ ncalls >= 2
    /\ fr.func = "flightRange"
    /\ fr.prev_func = "flightRange"
    /\ ret.tag = "scalar"
    /\ ret = prev
    /\ objs[cfg] = cfg0

\* C15: the value flightRange returns is cruise_speed * (battery_mass *
\* energy_density * packing_factor * (1 - inaccessible_fraction) *
\* (1 - reserve_fraction) - takeoff energy - climb energy) / cruise_power.
C15_FlightRangeFormula ==
    FR_Returned =>
        LET a == cfg0
            usable == (((((a.battery_mass * a.energy_density * a.packing_factor) \div 100)
                          * (100 - a.inaccessible_fraction)) \div 100)
                          * (100 - a.reserve_fraction)) \div 100
            remaining == usable - takeoffEnergy(takeoffSpeed(a), a)
                                - climbEnergy(takeoffSpeed(a), a)
        IN  ret.val.data[1] = (a.cruise_speed * remaining) \div cruisePower(a)

C15_Witness ==
    /\ FR_Returned
    /\ fr.takeoff_energy > 0
    /\ fr.climb_energy > 0
    /\ fr.cruise_power > 0
    /\ ret.val.data[1] > 0

\* C16: in the climb that flightRange integrates, the airspeed rises
\* linearly from the takeoff speed at time 0 to the cruise speed at
\* climb_time = cruise_altitude / climb_rate, the altitude rises linearly from
\* 0 to cruise_altitude, and the power integrated is drag * speed +
\* weight * climb_rate.
C16_ClimbProfile ==
    (FR_Running /\ pc \in {"cruise", "report", "returned"}) =>
        LET a == objs[cfg]
            v0 == fr.takeoff_speed
            T == climb_time(a)
        IN  /\ T * a.climb_rate = a.cruise_altitude
            /\ climbSpeed(a, v0, 0) = v0
            /\ climbSpeed(a, v0, T) = a.cruise_speed
            /\ climbAltitude(a, 0) = 0
            /\ climbAltitude(a, T) = a.cruise_altitude

\* C17: airDensity is a function of the altitude alone, equals density_msl
\* at altitude 0, and is strictly decreasing over [0, 11000).
C17_AirDensityDecreasing ==
    /\ (fr.queries >= 1 /\ fr.altitude = 0) => fr.density = density_msl
    /\ (fr.queries = 2 /\ fr.altitude = fr.prev_altitude) => fr.density = fr.prev_density
    /\ (fr.queries = 2 /\ fr.prev_altitude < fr.altitude /\ fr.altitude < AtmosphereLimit) =>
            fr.density < fr.prev_density

C17_Witness ==
    /\ fr.queries = 2
    /\ fr.prev_altitude = 0
    /\ fr.altitude = 10500
    /\ fr.density < fr.prev_density
    /\ fr.prev_density = density_msl

\* ------------------------------- properties of the constrained search
\* A search has just returned its result to its caller.
SearchReturned == pc \in {"store", "returned"} /\ ret.tag = "tuple"

\* The constraint value at a returned cruise distance.
residualAt(x_opt) ==
    IF opt.script = "mtow_range_tradeoff"
    THEN bat_reserve(scale(x_opt), opt.battery_mass)
    ELSE oc_bat_reserve(x_opt, opt.available_energy)

\* C18: the cruise distance returned by cruise_opt and by opt_cruise lies
\* within the bounds given to the solver and satisfies the reserve
\* constraint (the tolerances, 1e-8 and 1e-6, are below the unit of the model).
C18_ReturnedDistanceFeasible ==
    SearchReturned =>
        /\ IF opt.script = "mtow_range_tradeoff"
           THEN unscale(x_lb) <= ret.val.data[1] /\ ret.val.data[1] <= unscale(x_ub)
           ELSE oc_x_lb <= ret.val.data[1] /\ ret.val.data[1] <= oc_x_ub
        /\ residualAt(ret.val.data[1]) >= 0

\* C19 as stated: the search returns, with the optimal value and the optimal
\* objective, the residual of the constraint at the optimum.
C19_ResidualReturned ==
    SearchReturned =>
        /\ ret.val.shape = <<3>>
        /\ ret.val.data[3] = residualAt(ret.val.data[1])

\* C19 amended: the search returns the pair (optimal value, optimal
\* objective) and nothing else; cruise_opt evaluates the constraint at the
\* returned point and prints it as the remaining energy, opt_cruise prints
\* nothing.
C19_ResidualPrintedNotReturned ==
    SearchReturned =>
        /\ ret.val.shape = <<2>>
        /\ ret.val.data = <<opt.x_opt, opt.range_opt>>
        /\ IF opt.script = "mtow_range_tradeoff"
           THEN /\ Len(opt.printed) = 3
                /\ opt.printed[3] = unscale(residualAt(opt.x_opt))
           ELSE opt.printed = <<>>

C19_Witness ==
    /\ pc = "store"
    /\ opt.script = "mtow_range_tradeoff"
    /\ opt.sol.success
    /\ opt.x_opt > unscale(x_start)
    /\ ret.val.data = <<opt.x_opt, opt.range_opt>>
    /\ Len(opt.printed) = 3

\* C20: when the solver does not converge the search propagates the
\* failure: it never returns a pair taken from a non-converged solution, and
\* no value of a non-converged solution is stored in the array of ranges.
C20_NonConvergencePropagates ==
    /\ SearchReturned => opt.sol.success
    /\ \A k \in 1..Len(opt.converged) : opt.converged[k]

\* ------------------------------------------ properties of the procedures
\* C21: every run terminates: whatever the weights method reports, the
\* loops `while converged == False` of weights_battery and
\* calculate_takeoff_weight exit after finitely many iterations.
C21_WeightLoopsTerminate == (pc = "weights_loop") ~> (pc = "weights_done")

\* ------------------------------------------- properties of the sweep loops
\* C22: a sweep that returns its array has called the evaluator exactly once
\* per grid point: len(values) times, in input order, for a 1-D sweep;
\* len(values_a) * len(values_b) times, values_a in the outer loop and
\* values_b in the inner loop, for a 2-D sweep.
C22_OneCallPerGridPoint ==
    /\ Returned1D =>
          /\ Len(evals) = Len(values0[1])
          /\ \A k \in 1..Len(values0[1]) : evals[k][parameters[1]] = values0[1][k]
    /\ Returned2D =>
          /\ Len(evals) = Len(values0[1]) * Len(values0[2])
          /\ \A a \in 1..Len(values0[1]) : \A b \in 1..Len(values0[2]) :
                LET call == evals[(a - 1) * Len(values0[2]) + b]
                IN  /\ call[parameters[2]] = values0[2][b]
                    /\ parameters[1] # parameters[2] =>
                          call[parameters[1]] = values0[1][a]

C22_Witness ==
    /\ Returned2D
    /\ parameters = <<"dry_mass", "battery_mass">>
    /\ Len(values0[1]) = 2
    /\ Len(values0[2]) = 2
    /\ Len(evals) = 4
    /\ evals[2].dry_mass # evals[3].dry_mass
    /\ evals[1].battery_mass # evals[2].battery_mass

\* C23: every grid point is evaluated on an independent copy of the base
\* configuration: whatever earlier evaluator calls did to the configuration
\* they were handed, each call receives the base configuration with only the
\* swept field(s) changed.
C23_EachPointFromBase ==
    \A k \in 1..Len(evals) :
        \A n \in DOMAIN cfg0 :
            n \notin {parameters[q] : q \in 1..Len(parameters)} => evals[k][n] = cfg0[n]

\* C24: the array a sweep returns holds the evaluator's raw outputs, whatever
\* display_units were given: unit factors scale only the data handed to the
\* plot.
C24_ReturnedArrayUnscaled ==
    /\ Returned1D =>
          \A k \in 1..Len(values0[1]) :
              ret.val.data[k] = evaluate(evaluator_func, evals[k])
    /\ Returned2D =>
          \A a \in 1..Len(values0[1]) : \A b \in 1..Len(values0[2]) :
              ret.val.data[b][a] =
                  evaluate(evaluator_func, evals[(a - 1) * Len(values0[2]) + b])

C24_Witness ==
    /\ Returned2D
    /\ units = <<1, 1, 2>>
    /\ Len(values0[1]) = 1
    /\ Len(values0[2]) = 2
    /\ ret.val.data[1][1] > 0
    /\ ret.val.data[2][1] > ret.val.data[1][1]

\* C25: parametricStudy has no side effect on its arguments: when a 1-D or
\* 2-D sweep has finished, with any display_units, the value sequences and the
\* list holding them still have the values the caller passed.
C25_ArgumentsUnchanged == Finished => values = values0

\* -------------------------------------- properties of the default Aircraft
\* C26: an Aircraft constructed from the literal defaults defines every field
\* the evaluators read, inaccessible_fraction and prop_efficiency included:
\* flightRange and electricRangeEqn on it complete without a
\* missing-attribute failure.
C26_DefaultAircraftEvaluates ==
    objs[cfg] = DefaultAircraft => exc # "AttributeError"

\* ------------------------------- properties of basic_range_sim's driver
\* C27: in RangeAnalysis.parametricStudy2D of basic_range_sim.py, for value
\* sequences of any lengths, equal or not, every write to the grid uses an
\* index inside the allocated array, and the grid handed to the plots has
\* len(valuesB) rows of len(valuesA) columns.
C27_GridWritesInside ==
    /\ exc # "IndexError"
    /\ Returned2D => ret.val.shape = <<Len(values0[2]), Len(values0[1])>>

\* ------------------------------------ properties of the procedure steps
\* C29: weights_battery of Testing_Scripts/Case_1 reads the battery mass only
\* after it is defined: the step completes without error, leaving
\* max_takeoff = empty + payload + battery mass on every configuration and
\* the first mission segment charged to the battery's max energy.
C29_Case1WeightsBatteryCompletes ==
    nexus.script = "Case_1.weights_battery" =>
        /\ pc # "raised"
        /\ pc = "weights_done" =>
              /\ nexus.max_takeoff = nexus.empty + nexus.max_payload + nexus.battery_mass
              /\ nexus.takeoff = nexus.max_takeoff
              /\ nexus.charged

\* ---------------------------------- properties of available_cruise_energy
\* C30: the energy available for cruise is the battery energy at the start of
\* the mission less the energy of the two climb segments (each segment's own
\* first energy minus its own last energy), less the descent energy, less the
\* 10% of the starting energy that is not usable.
C30_AvailableCruiseEnergy ==
    opt.script = "opt_cruise.main" =>
        LET used(k) == first_energy(results[k]) - last_energy(results[k])
        IN  /\ takeoff_energy_used(results) = used(1) + used(2)
            /\ opt.max_cruise_energy =
                   first_energy(results[1]) - (used(1) + used(2)) - used(4)
                       - first_energy(results[1]) \div 10

\* ------------------------------------ properties of the optimization setups
\* C28: in every optimization setup each tag of the objective and of the
\* constraints has an entry in problem.aliases, and every alias that points
\* into 'summary' names a field that post_process has assigned when a run of
\* the procedure ends.
C28_AliasesResolve ==
    pc = "post_processed" =>
        LET problem == nexus.optimization_problem
        IN  /\ \A tag \in problem.objective \cup problem.constraints :
                  tag \in DOMAIN problem.aliases
            /\ \A tag \in DOMAIN problem.aliases :
                  problem.aliases[tag].root = "summary" =>
                      problem.aliases[tag].name \in DOMAIN nexus.summary

====
